---- MODULE Spec2Model ----
(***************************************************************************)
(* Verification model of the p2p file server: the worker pool and the      *)
(* per-connection dispatcher of src/src/main.rs, the Chunk framed channel, *)
(* wire codec and file streaming of src/src/lib.rs, and the client calls   *)
(* of src/src/client.rs.                                                   *)
(*                                                                         *)
(* Three specifications share the module:                                  *)
(*   Spec        the server: acceptor, pool, dispatcher, index, disk       *)
(*   SpecStream  send_file / receive_file over a byte pipe, byte by byte   *)
(*   SpecCodec   write_string / read_string over a byte pipe               *)
(***************************************************************************)
EXTENDS Integers, Sequences, FiniteSets, TLC

(***************************************************************************)
(* Bounds of the model.                                                    *)
(***************************************************************************)
\* Number of workers of the pool (THREAD_COUNT is 8 in main.rs; scaled).
PoolSize == 2
\* Number of client connections that may be accepted.
NumConns == 2
\* Number of op codes the clients send altogether.
MaxReqs == 3
\* Largest declared size of an upload in the server model.
MaxSize == 1

Workers == 1..PoolSize
Conns == 1..NumConns

(***************************************************************************)
(* File names.  A fileName sent by a client is a path: a sequence of       *)
(* components.  The working directory of the server holds the directory    *)
(* server_files and, beside it, a file "a" of its own.                     *)
(***************************************************************************)
SERVER_FILES == "server_files"
ServerNames == {"a", "b"}
Paths == {<<"a">>, <<"b">>, <<"..", "a">>, <<"..">>}
NoName == "<none>"
\* The file beside server_files (outside the server directory).
OutsidePath == <<"a">>

\* Path::file_name: the last component, unless the path ends in "..".
FileName(p) == IF p = <<>> \/ p[Len(p)] = ".." THEN NoName ELSE p[Len(p)]

\* Directories that exist, as paths from the working directory.
Dirs == {<<>>, <<SERVER_FILES>>}

\* Resolution of a relative path by the operating system, from location cur.
RECURSIVE Resolve(_, _)
Resolve(cur, p) ==
    IF p = <<>> THEN cur
    ELSE IF cur \notin Dirs THEN <<NoName>>
    ELSE IF Head(p) = ".."
         THEN Resolve(IF cur = <<>> THEN <<>> ELSE SubSeq(cur, 1, Len(cur) - 1), Tail(p))
         ELSE Resolve(Append(cur, Head(p)), Tail(p))

VARIABLES
    mainSt,     \* main thread: "accepting", "dropping", "done", or the
                \* unwrap that panicked: "execute_panicked", "join_panicked"
    joinIdx,    \* Drop for ThreadPool: the worker being joined
    queue,      \* jobs (connections) in the mpsc channel
    wst,        \* worker thread: "idle", "busy", "exited", "panicked"
    wjob,       \* the connection a busy worker is handling ({} when none)
    wdeath,     \* the panic message a worker died with
    cst,        \* connection: position of its handler (see handle_client)
    nreq,       \* op codes the clients have sent so far
    cur,        \* the handler's locals: name, len, todo, snap
    index,      \* SharedFiles: the HashSet behind the mutex
    lock,       \* connections whose handler holds the SharedFiles mutex
    disk,       \* server_files: entry name -> length of the file
    resp,       \* fields written to the client and not yet read by it
    awaiting,   \* what the client is blocked reading: "none", "file", "list"
    dl,         \* history: whether the path of the pending download existed
    uploads,    \* history: uploads that add_file completed with Ok
    seen,       \* history: uploads completed when the connection asked to list
    lastAccess, \* history: the last file system access of the server
    execCount,  \* history: times the job of a connection was started
    ranBy,      \* history: workers that ran steps of the connection's handler
    lastList    \* history: the names of the last list returned, while no
                \* upload has been inserted since ({} when there is none)

serverVars == <<mainSt, joinIdx, queue, wst, wjob, wdeath, cst, nreq, cur, index,
                lock, disk, resp, awaiting, dl, uploads, seen, lastAccess,
                execCount, ranBy, lastList>>

\* The framed channel under test (SpecStream, SpecCodec).
VARIABLES
    tx,     \* the Chunk of the sending end
    rx,     \* the Chunk of the receiving end
    wire,   \* bytes written by the sender and not yet read by the receiver
    snd,    \* the sending call: its position and locals
    rcv     \* the receiving call: its position and locals

chanVars == <<tx, rx, wire, snd, rcv>>

vars == <<serverVars, chanVars>>

\* Exists(path): Path::exists for a path relative to the working directory.
IsDir(loc) == loc \in Dirs
IsServerFile(loc, d) == Len(loc) = 2 /\ loc[1] = SERVER_FILES /\ loc[2] \in DOMAIN d
Exists(p, d) ==
    LET loc == Resolve(<<>>, p) IN IsDir(loc) \/ loc = OutsidePath \/ IsServerFile(loc, d)
\* metadata().len() of an existing path.
FileLen(p, d) ==
    LET loc == Resolve(<<>>, p) IN
    IF IsServerFile(loc, d) THEN d[loc[2]] ELSE 1

Min(a, b) == IF a < b THEN a ELSE b

\* The ways a stream can deliver n bytes: the sizes of the successive reads.
RECURSIVE Splits(_)
Splits(n) ==
    IF n = 0 THEN {<<>>}
    ELSE UNION {{<<k>> \o s : s \in Splits(n - k)} : k \in 1..n}

(***************************************************************************)
(* The framed channel.  N is the capacity of the Chunk buffer              *)
(* (Chunk::<1024> in main.rs and client.rs; scaled down).                  *)
(***************************************************************************)
N == 8
\* A usize on the wire: 8 bytes, little-endian.
UsizeBytes == 8

\* receive_file as far as the length of its result goes: every pass of the
\* loop asks for bytes_to_read bytes, appends slice(bytes_to_read) to the
\* result and counts the bytes_read bytes that the read delivered.
RECURSIVE ReceiveLoopLen(_, _, _)
ReceiveLoopLen(file_size, bytes_received, reads) ==
    IF ~(bytes_received < file_size) \/ reads = <<>> THEN 0
    ELSE LET bytes_to_read == Min(N, file_size - bytes_received)
             bytes_read == Min(Head(reads), bytes_to_read)
         IN bytes_to_read + ReceiveLoopLen(file_size, bytes_received + bytes_read, Tail(reads))
ReceivedLen(file_size, reads) == ReceiveLoopLen(file_size, 0, reads)

(***************************************************************************)
(* The server: main, ThreadPool, Worker.                                   *)
(***************************************************************************)
NoLocals == [asked |-> <<>>, name |-> NoName, len |-> 0, todo |-> {}, snap |-> {}]
NoAccess == [op |-> "none", asked |-> <<>>, path |-> <<>>]

\* load_all_files: the index starts as the names of the directory's entries.
load_all_files(d) == DOMAIN d

InitDisks == {[n \in S |-> 1] : S \in {{}, {"a"}}} \cup {[n \in {"b"} |-> 0]}

InitServer ==
    /\ mainSt = "accepting"
    /\ joinIdx = 1
    /\ queue = <<>>
    /\ wst = [w \in Workers |-> "idle"]
    /\ wjob = [w \in Workers |-> {}]
    /\ wdeath = [w \in Workers |-> "none"]
    /\ cst = [c \in Conns |-> "new"]
    /\ nreq = 0
    /\ cur = [c \in Conns |-> NoLocals]
    /\ disk \in InitDisks
    /\ index = load_all_files(disk)
    /\ lock = {}
    /\ resp = [c \in Conns |-> <<>>]
    /\ awaiting = [c \in Conns |-> "none"]
    /\ dl = [c \in Conns |-> "none"]
    /\ uploads = {}
    /\ seen = [c \in Conns |-> {}]
    /\ lastAccess = NoAccess
    /\ execCount = [c \in Conns |-> 0]
    /\ ranBy = [c \in Conns |-> {}]
    /\ lastList = {}

clientVars == <<resp, awaiting, dl>>
histVars == <<uploads, seen, lastAccess, execCount, ranBy, lastList>>
histNoRan == <<uploads, seen, lastAccess, execCount>>
poolVars == <<mainSt, joinIdx, queue, wst, wjob, wdeath>>
fileVars == <<index, lock, disk>>

\* Whether any worker thread still holds the receiving end of the channel.
ReceiverAlive == \E w \in Workers : wst[w] \in {"idle", "busy"}

\* main's accept loop and ThreadPool::execute: connections are numbered in
\* the order they are accepted; the job of an accepted
\* connection is sent into the channel; send fails, and unwrap panics, once
\* every worker thread has ended and dropped the receiver.
execute(c) ==
    /\ mainSt = "accepting"
    /\ cst[c] = "new"
    /\ \A b \in 1..(c - 1) : cst[b] # "new"
    /\ IF ReceiverAlive
       THEN /\ queue' = Append(queue, c)
            /\ cst' = [cst EXCEPT ![c] = "queued"]
            /\ UNCHANGED mainSt
       ELSE /\ mainSt' = "execute_panicked"
            /\ cst' = [cst EXCEPT ![c] = "refused"]
            /\ UNCHANGED queue
    /\ UNCHANGED chanVars
    /\ UNCHANGED <<joinIdx, wst, wjob, wdeath, nreq, cur, fileVars, clientVars, histVars>>

\* The channel's recv: the job at the head leaves the queue.
DequeueKeep(q) == q
Dequeue(q) == Tail(q)

\* Worker loop, Ok(job): the worker takes the job at the head of the queue.
worker_recv(w) ==
    /\ wst[w] = "idle"
    /\ queue # <<>>
    /\ LET c == Head(queue) IN
        /\ queue' = Dequeue(queue)
        /\ wst' = [wst EXCEPT ![w] = "busy"]
        /\ wjob' = [wjob EXCEPT ![w] = {c}]
        /\ cst' = [cst EXCEPT ![c] = "AwaitOpCode"]
        /\ execCount' = [execCount EXCEPT ![c] = @ + 1]
    /\ UNCHANGED chanVars
    /\ UNCHANGED <<mainSt, joinIdx, wdeath, nreq, cur, fileVars, clientVars,
                   uploads, seen, lastAccess, lastList, ranBy>>

\* Worker loop, Err(_): the channel is empty and its sender dropped.
worker_disconnected(w) ==
    /\ wst[w] = "idle"
    /\ queue = <<>>
    /\ mainSt # "accepting"
    /\ wst' = [wst EXCEPT ![w] = "exited"]
    /\ UNCHANGED chanVars
    /\ UNCHANGED <<mainSt, joinIdx, queue, wjob, wdeath, cst, nreq, cur, fileVars,
                   clientVars, histVars>>

\* Drop for ThreadPool: the sender is dropped, then the workers are joined.
drop_pool ==
    /\ mainSt = "accepting"
    /\ mainSt' = "dropping"
    /\ UNCHANGED chanVars
    /\ UNCHANGED <<joinIdx, queue, wst, wjob, wdeath, cst, nreq, cur, fileVars,
                   clientVars, histVars>>

\* thread.join().unwrap() on the next worker: returns when the thread has
\* ended, and panics when the thread ended with a panic.
drop_join ==
    /\ mainSt = "dropping"
    /\ joinIdx \in Workers
    /\ wst[joinIdx] \in {"exited", "panicked"}
    /\ IF wst[joinIdx] = "panicked"
       THEN mainSt' = "join_panicked" /\ UNCHANGED joinIdx
       ELSE /\ joinIdx' = joinIdx + 1
            /\ mainSt' = IF joinIdx = PoolSize THEN "done" ELSE "dropping"
    /\ UNCHANGED chanVars
    /\ UNCHANGED <<queue, wst, wjob, wdeath, cst, nreq, cur, fileVars,
                   clientVars, histVars>>

(***************************************************************************)
(* The dispatcher: handle_client and the three handlers of main.rs.        *)
(* Positions of a connection's handler (cst):                              *)
(*   "new", "queued", "refused"   before a worker runs the job             *)
(*   "AwaitOpCode"                chunk.read_stream(1) of the loop         *)
(*   "UpWrite", "UpWriteAll"      add_file, line 32: fs::write creates or  *)
(*                                truncates the file, then writes into it  *)
(*   "UpLock", "UpInsert"         add_file, lines 35, 36                   *)
(*   "LsLock", "LsEntries"        fetch_files, lines 60, 63-65             *)
(*   "spin"                       receive_file looping on reads of 0 bytes *)
(*   "err", "aborted"             handle_client returned Err / panicked    *)
(***************************************************************************)
Handling(w, c) == mainSt \in {"accepting", "dropping"} /\ wst[w] = "busy" /\ wjob[w] = {c}

\* The client is free to send the next op code.
MaySend(c) == cst[c] = "AwaitOpCode" /\ awaiting[c] = "none" /\ nreq < MaxReqs

\* The job returns (handle_client's Err is logged by the job's closure):
\* the worker goes back to recv.
JobReturns(w, c) ==
    /\ wst' = [wst EXCEPT ![w] = "idle"]
    /\ wjob' = [wjob EXCEPT ![w] = {}]
    /\ cst' = [cst EXCEPT ![c] = "err"]
    /\ UNCHANGED wdeath

\* The job panics: the worker thread unwinds and ends.
JobPanics(w, c, msg) ==
    /\ wst' = [wst EXCEPT ![w] = "panicked"]
    /\ wjob' = [wjob EXCEPT ![w] = {}]
    /\ wdeath' = [wdeath EXCEPT ![w] = msg]
    /\ cst' = [cst EXCEPT ![c] = "aborted"]

\* The handler goes on with the same job.
JobDetaches(c, pos) ==
    /\ cst' = [cst EXCEPT ![c] = pos]
    /\ wst' = [w \in Workers |-> IF wjob[w] = {c} THEN "idle" ELSE wst[w]]
    /\ wjob' = [w \in Workers |-> wjob[w] \ {c}]
    /\ UNCHANGED wdeath
JobGoesOn(c, pos) ==
    /\ cst' = [cst EXCEPT ![c] = pos]
    /\ UNCHANGED <<wst, wjob, wdeath>>

Ran(w, c) == ranBy' = [ranBy EXCEPT ![c] = @ \cup {w}]

\* handle_client: read_stream(1) fails because the client closed.
read_op_closed(w, c) ==
    /\ Handling(w, c)
    /\ cst[c] = "AwaitOpCode" /\ awaiting[c] = "none"
    /\ JobReturns(w, c)
    /\ Ran(w, c)
    /\ UNCHANGED chanVars
    /\ UNCHANGED <<mainSt, joinIdx, queue, nreq, cur, fileVars, clientVars,
                   uploads, seen, lastAccess, lastList, execCount>>

\* handle_client: op byte 3.
keep_alive(w, c) ==
    /\ Handling(w, c)
    /\ MaySend(c)
    /\ nreq' = nreq + 1
    /\ Ran(w, c)
    /\ UNCHANGED chanVars
    /\ UNCHANGED <<poolVars, cst, cur, fileVars, clientVars,
                   uploads, seen, lastAccess, lastList, execCount>>

\* handle_client: any other op byte.
unknown_op(w, c) ==
    /\ Handling(w, c)
    /\ MaySend(c)
    /\ nreq' = nreq + 1
    /\ JobPanics(w, c, "Unknown op byte")
    /\ Ran(w, c)
    /\ UNCHANGED chanVars
    /\ UNCHANGED <<mainSt, joinIdx, queue, cur, fileVars, clientVars,
                   uploads, seen, lastAccess, lastList, execCount>>

\* add_file, lines 18-29, when every field arrives: the name, the declared
\* size and the payload, delivered by the stream in the given reads.
add_file_recv(w, c, p, file_size, reads) ==
    /\ Handling(w, c)
    /\ MaySend(c)
    /\ nreq' = nreq + 1
    /\ Ran(w, c)
    /\ LET file_name == FileName(p) IN
       IF file_name = NoName
       THEN /\ JobPanics(w, c, "file_name().unwrap()")
            /\ UNCHANGED <<cur, uploads>>
       ELSE IF file_size = 0
       THEN /\ JobGoesOn(c, "AwaitOpCode")
            /\ uploads' = uploads \cup {<<c, file_name, FALSE>>}
            /\ UNCHANGED cur
       ELSE /\ JobGoesOn(c, "UpWrite")
            /\ cur' = [cur EXCEPT ![c] = [NoLocals EXCEPT !.asked = p, !.name = file_name,
                                              !.len = ReceivedLen(file_size, reads)]]
            /\ UNCHANGED uploads
    /\ UNCHANGED chanVars
    /\ UNCHANGED <<mainSt, joinIdx, queue, fileVars, clientVars,
                   seen, lastAccess, lastList, execCount>>

\* Where the peer may stop sending inside a request.
Cuts == {"nameLen", "nameBytes", "size", "payloadEof", "payloadReset"}

\* add_file (op 0) or get_file (op 1) when the client closes inside the
\* request: read_usize panics on a failed read, read_stream(..)? returns the
\* error, and receive_file's chunk.read returns Ok(0) at end of stream
\* (the loop then repeats) or an error when the connection was reset.
request_cut(w, c, op, where) ==
    /\ Handling(w, c)
    /\ MaySend(c)
    /\ op = 1 => where \in {"nameLen", "nameBytes"}
    /\ nreq' = nreq + 1
    /\ Ran(w, c)
    /\ CASE where \in {"nameLen", "size"} ->
                JobPanics(w, c, "Could not read string size bytes")
         [] where \in {"nameBytes", "payloadReset"} ->
                JobReturns(w, c)
         [] where = "payloadEof" ->
                JobGoesOn(c, "spin")
    /\ UNCHANGED chanVars
    /\ UNCHANGED <<mainSt, joinIdx, queue, cur, fileVars, clientVars,
                   uploads, seen, lastAccess, lastList, execCount>>

\* receive_file, lines 189-195, at the end of the stream: chunk.read returns
\* Ok(0), the same bytes_to_read bytes are appended again and bytes_received
\* stays where it was, so the loop takes another pass from the same state.
receive_file_eof(w, c) ==
    /\ Handling(w, c)
    /\ cst[c] = "spin"
    /\ JobGoesOn(c, "spin")
    /\ Ran(w, c)
    /\ UNCHANGED chanVars
    /\ UNCHANGED <<mainSt, joinIdx, queue, nreq, cur, fileVars, clientVars,
                   uploads, seen, lastAccess, lastList, execCount>>

\* add_file, line 32: fs::write under the base name, first half: the file
\* is created, or cut to no bytes when it exists.
add_file_create(w, c) ==
    /\ Handling(w, c)
    /\ cst[c] = "UpWrite"
    /\ disk' = [n \in DOMAIN disk \cup {cur[c].name} |->
                    IF n = cur[c].name THEN 0 ELSE disk[n]]
    /\ lastAccess' = [op |-> "write", asked |-> cur[c].asked,
                      path |-> <<SERVER_FILES, cur[c].name>>]
    /\ JobGoesOn(c, "UpWriteAll")
    /\ Ran(w, c)
    /\ UNCHANGED chanVars
    /\ UNCHANGED <<mainSt, joinIdx, queue, nreq, cur, index, lock, clientVars,
                   uploads, seen, execCount, lastList>>

\* add_file, line 32: fs::write, second half: the contents are written.
add_file_write(w, c) ==
    /\ Handling(w, c)
    /\ cst[c] = "UpWriteAll"
    /\ disk' = [n \in DOMAIN disk \cup {cur[c].name} |->
                    IF n = cur[c].name THEN cur[c].len ELSE disk[n]]
    /\ lastAccess' = [op |-> "write", asked |-> cur[c].asked,
                      path |-> <<SERVER_FILES, cur[c].name>>]
    /\ JobGoesOn(c, "UpLock")
    /\ Ran(w, c)
    /\ UNCHANGED chanVars
    /\ UNCHANGED <<mainSt, joinIdx, queue, nreq, cur, index, lock, clientVars,
                   uploads, seen, execCount, lastList>>

\* add_file, line 32, when fs::write fails.
add_file_write_err(w, c) ==
    /\ Handling(w, c)
    /\ cst[c] \in {"UpWrite", "UpWriteAll"}
    /\ JobReturns(w, c)
    /\ cur' = [cur EXCEPT ![c] = NoLocals]
    /\ Ran(w, c)
    /\ UNCHANGED chanVars
    /\ UNCHANGED <<mainSt, joinIdx, queue, nreq, fileVars, clientVars,
                   uploads, seen, lastAccess, lastList, execCount>>

\* Mutex::lock returns only while no other guard is alive.
MutexAlwaysFree(holders) == TRUE
MutexFree(holders) == holders = {}

\* HashSet::insert.
InsertReplaces(set, name) == {name}
Insert(set, name) == set \cup {name}

\* add_file, line 35: shared_files.lock(); the guard gives access to the set.
add_file_lock(w, c) ==
    /\ Handling(w, c)
    /\ cst[c] = "UpLock"
    /\ MutexFree(lock)
    /\ lock' = lock \cup {c}
    /\ cur' = [cur EXCEPT ![c].snap = index]
    /\ JobGoesOn(c, "UpInsert")
    /\ Ran(w, c)
    /\ UNCHANGED chanVars
    /\ UNCHANGED <<mainSt, joinIdx, queue, nreq, index, disk, clientVars,
                   uploads, seen, lastAccess, lastList, execCount>>

\* add_file, lines 36-40: insert through the guard, drop the guard, Ok(()).
add_file_insert(w, c) ==
    /\ Handling(w, c)
    /\ cst[c] = "UpInsert"
    /\ index' = Insert(cur[c].snap, cur[c].name)
    /\ lock' = lock \ {c}
    /\ uploads' = uploads \cup {<<c, cur[c].name, TRUE>>}
    /\ cur' = [cur EXCEPT ![c] = NoLocals]
    /\ lastList' = {}
    /\ JobGoesOn(c, "AwaitOpCode")
    /\ Ran(w, c)
    /\ UNCHANGED chanVars
    /\ UNCHANGED <<mainSt, joinIdx, queue, nreq, disk, clientVars,
                   seen, lastAccess, execCount>>

\* get_file, line 44: the path the server looks up for a requested name.
ServerPath(p) == <<SERVER_FILES>> \o p

\* get_file and send_file (server side) when the name arrives: a missing
\* path is answered with the usize 0; an existing one with its size, then,
\* when the size is not 0, its bytes.  Reading a directory fails after the
\* size was written.
get_file(w, c, p) ==
    /\ Handling(w, c)
    /\ MaySend(c)
    /\ nreq' = nreq + 1
    /\ Ran(w, c)
    /\ LET file_name == ServerPath(p) IN
        /\ lastAccess' = [op |-> "read", asked |-> p, path |-> file_name]
        /\ awaiting' = [awaiting EXCEPT ![c] = "file"]
        /\ dl' = [dl EXCEPT ![c] = IF Exists(file_name, disk) THEN "found" ELSE "missing"]
        /\ IF ~Exists(file_name, disk)
           THEN /\ resp' = [resp EXCEPT ![c] = <<0>>]
                /\ JobGoesOn(c, "AwaitOpCode")
           ELSE IF IsDir(Resolve(<<>>, file_name))
           THEN /\ resp' = [resp EXCEPT ![c] = <<FileLen(file_name, disk)>>]
                /\ JobReturns(w, c)
           ELSE LET file_size == FileLen(file_name, disk) IN
                /\ resp' = [resp EXCEPT ![c] =
                               IF file_size = 0 THEN <<0>> ELSE <<file_size, file_size>>]
                /\ JobGoesOn(c, "AwaitOpCode")
    /\ UNCHANGED chanVars
    /\ UNCHANGED <<mainSt, joinIdx, queue, cur, fileVars,
                   uploads, seen, execCount, lastList>>

\* handle_client: op byte 2; fetch_files is entered and waits for the mutex.
fetch_files_op(w, c) ==
    /\ Handling(w, c)
    /\ MaySend(c)
    /\ nreq' = nreq + 1
    /\ awaiting' = [awaiting EXCEPT ![c] = "list"]
    /\ seen' = [seen EXCEPT ![c] = uploads]
    /\ JobGoesOn(c, "LsLock")
    /\ Ran(w, c)
    /\ UNCHANGED chanVars
    /\ UNCHANGED <<mainSt, joinIdx, queue, cur, fileVars, resp, dl,
                   uploads, lastAccess, lastList, execCount>>

\* The names written after the count of a list response.
Written(r) == {r[i] : i \in 2..Len(r)}

\* fetch_files, lines 60-61: lock, then write the count.  With nothing to
\* iterate the function returns and the guard is dropped.
fetch_files_lock(w, c) ==
    /\ Handling(w, c)
    /\ cst[c] = "LsLock"
    /\ MutexFree(lock)
    /\ resp' = [resp EXCEPT ![c] = <<Cardinality(index)>>]
    /\ IF index = {}
       THEN /\ JobGoesOn(c, "AwaitOpCode")
            /\ lastList' = {{}}
            /\ UNCHANGED <<lock, cur>>
       ELSE /\ JobGoesOn(c, "LsEntries")
            /\ lock' = lock \cup {c}
            /\ cur' = [cur EXCEPT ![c].todo = index]
            /\ UNCHANGED lastList
    /\ Ran(w, c)
    /\ UNCHANGED chanVars
    /\ UNCHANGED <<mainSt, joinIdx, queue, nreq, index, disk, awaiting, dl,
                   histNoRan>>

\* fetch_files, lines 63-66: one write_string per name, in the set's
\* iteration order (any order); after the last one the guard is dropped.
fetch_files_entry(w, c, file) ==
    /\ Handling(w, c)
    /\ cst[c] = "LsEntries"
    /\ file \in cur[c].todo
    /\ resp' = [resp EXCEPT ![c] = Append(@, file)]
    /\ IF cur[c].todo = {file}
       THEN /\ JobGoesOn(c, "AwaitOpCode")
            /\ lock' = lock \ {c}
            /\ cur' = [cur EXCEPT ![c] = NoLocals]
            /\ lastList' = {Written(resp'[c])}
       ELSE /\ JobGoesOn(c, "LsEntries")
            /\ cur' = [cur EXCEPT ![c].todo = @ \ {file}]
            /\ UNCHANGED <<lock, lastList>>
    /\ Ran(w, c)
    /\ UNCHANGED chanVars
    /\ UNCHANGED <<mainSt, joinIdx, queue, nreq, index, disk, awaiting, dl,
                   histNoRan>>

(***************************************************************************)
(* The client calls of client.rs, as far as they decode a response.        *)
(***************************************************************************)
\* receive_file, lines 180-182: a declared size of 0 is "no file".
ReceiveZeroAsEmpty(file_size, reads) == [kind |-> "file", len |-> 0]
receive_file_result(file_size, reads) ==
    IF file_size = 0 THEN [kind |-> "absent", len |-> 0]
    ELSE [kind |-> "file", len |-> ReceivedLen(file_size, reads)]

\* What client get_file (lines 47-48) returns for a response r: read_usize,
\* then receive_file.  When the server ended after a size that is not 0, the
\* reads return 0 bytes and the loop of receive_file does not end.
client_get_file_result(r, reads) ==
    IF r[1] > 0 /\ Len(r) = 1 THEN [kind |-> "spin", len |-> 0]
    ELSE receive_file_result(r[1], reads)

\* What client fetch_files (lines 55-65) returns for a response r: the count,
\* then that many names.
client_fetch_files_result(r) == [i \in 1..r[1] |-> r[1 + i]]

\* client get_file returns (or stays in the loop) and the response is consumed.
client_get_file(c) ==
    /\ awaiting[c] = "file" /\ resp[c] # <<>>
    /\ awaiting' = [awaiting EXCEPT ![c] =
           IF \A reads \in Splits(resp[c][1]) :
                 client_get_file_result(resp[c], reads).kind = "spin"
           THEN "stuck" ELSE "none"]
    /\ resp' = [resp EXCEPT ![c] = <<>>]
    /\ dl' = [dl EXCEPT ![c] = "none"]
    /\ UNCHANGED chanVars
    /\ UNCHANGED <<poolVars, cst, nreq, cur, fileVars, histVars>>

\* client fetch_files returns and the response is consumed.
client_fetch_files(c) ==
    /\ awaiting[c] = "list" /\ resp[c] # <<>>
    /\ Len(resp[c]) = 1 + resp[c][1]
    /\ awaiting' = [awaiting EXCEPT ![c] = "none"]
    /\ resp' = [resp EXCEPT ![c] = <<>>]
    /\ seen' = [seen EXCEPT ![c] = {}]
    /\ UNCHANGED chanVars
    /\ UNCHANGED <<poolVars, cst, nreq, cur, fileVars, dl, uploads, lastAccess, lastList,
                   execCount, ranBy>>

(***************************************************************************)
(* The framed channel of lib.rs, byte by byte.  A Chunk is its buffer of N *)
(* bytes and its two counters; the TcpStream it borrows is the sequence of *)
(* bytes in flight (wire).  An operation that can panic returns ok = FALSE.*)
(***************************************************************************)
\* usize::to_le_bytes: the UsizeBytes bytes of value, least significant first.
RECURSIVE LeBytes(_, _)
LeBytes(value, k) == IF k = 0 THEN <<>> ELSE <<value % 256>> \o LeBytes(value \div 256, k - 1)
to_le_bytes(value) == LeBytes(value, UsizeBytes)
\* usize::from_le_bytes.
RECURSIVE LeSum(_, _)
LeSum(bytes, i) == IF i > Len(bytes) THEN 0 ELSE bytes[i] + 256 * LeSum(bytes, i + 1)
from_le_bytes(bytes) == LeSum(bytes, 1)

\* Chunk::new.
ChunkNew == [buffer |-> [i \in 1..N |-> 0], bytes_sent |-> 0, last_insert |-> 0]

\* Chunk::reset.
ResetSentOnly(chunk) == [chunk EXCEPT !.bytes_sent = 0]
reset(chunk) == [chunk EXCEPT !.bytes_sent = 0, !.last_insert = 0]

\* Chunk::slice: &self.buffer[..count]; an index past the buffer panics.
SliceOk(count) == count <= N
slice(chunk, count) == SubSeq(chunk.buffer, 1, count)

\* The buffer with items copied over its first Len(items) bytes.
CopyInto(buffer, items) ==
    [i \in 1..Len(buffer) |-> IF i <= Len(items) THEN items[i] ELSE buffer[i]]

\* Chunk::to_byte_array::<S>: assert!(S <= N), then the first S bytes.
to_byte_array(chunk, S) == [ok |-> S <= N, bytes |-> SubSeq(chunk.buffer, 1, Min(S, N))]

\* Chunk::write_to_buf: copy_from_slice panics unless the two slices have
\* the same length, that is unless items fits the buffer.
write_to_buf(chunk, items) ==
    LET bytes_to_write == Min(Len(chunk.buffer), Len(items)) IN
    IF bytes_to_write # Len(items)
    THEN [ok |-> FALSE, chunk |-> chunk]
    ELSE [ok |-> TRUE,
          chunk |-> [chunk EXCEPT !.buffer = CopyInto(@, items),
                                  !.last_insert = bytes_to_write]]

\* Chunk::send_last_write: the first last_insert bytes go to the stream.
send_last_write(chunk) ==
    [ok |-> TRUE,
     chunk |-> [chunk EXCEPT !.bytes_sent = @ + chunk.last_insert],
     sent |-> slice(chunk, chunk.last_insert)]

\* Chunk::write_and_send.
write_and_send(chunk, items) ==
    LET w == write_to_buf(chunk, items) IN
    IF ~w.ok THEN [ok |-> FALSE, chunk |-> chunk, sent |-> <<>>]
    ELSE send_last_write(w.chunk)

\* Chunk::send: the first count bytes go to the stream.
send(chunk, count) ==
    IF ~SliceOk(count) THEN [ok |-> FALSE, chunk |-> chunk, sent |-> <<>>]
    ELSE [ok |-> TRUE,
          chunk |-> [chunk EXCEPT !.bytes_sent = @ + count],
          sent |-> slice(chunk, count)]

\* Chunk::read: one read of the stream into the first count bytes of the
\* buffer; bytes_read of them arrive (the first bytes_read bytes of incoming).
read(chunk, count, incoming, bytes_read) ==
    IF ~SliceOk(count) THEN [ok |-> FALSE, chunk |-> chunk, bytes_read |-> 0]
    ELSE [ok |-> TRUE,
          chunk |-> [chunk EXCEPT !.buffer = CopyInto(@, SubSeq(incoming, 1, bytes_read)),
                                  !.last_insert = count],
          bytes_read |-> bytes_read]

\* Chunk::read_stream: read_exact of count bytes, once they have arrived.
read_stream(chunk, count, incoming) ==
    IF ~SliceOk(count) THEN [ok |-> FALSE, chunk |-> chunk]
    ELSE [ok |-> TRUE,
          chunk |-> [chunk EXCEPT !.buffer = CopyInto(@, SubSeq(incoming, 1, count)),
                                  !.last_insert = count]]

\* write_usize.
write_usize(chunk, value) == write_and_send(chunk, to_le_bytes(value))

\* read_usize, when the bytes have arrived.
read_usize(chunk, incoming) ==
    LET r == read_stream(chunk, UsizeBytes, incoming)
        a == to_byte_array(r.chunk, UsizeBytes)
    IN [ok |-> r.ok /\ a.ok, chunk |-> r.chunk, value |-> from_le_bytes(a.bytes)]

NoFile == [exists |-> FALSE, bytes |-> <<>>]
SndIdle == [pc |-> "idle", file |-> NoFile, str |-> <<>>, file_size |-> 0, pos |-> 0]
RcvIdle == [pc |-> "idle", file_size |-> 0, bytes_received |-> 0, buffer |-> <<>>,
            result |-> "none", str |-> <<>>]

\* The channel is not in use (the server specification).
InitChanIdle ==
    /\ tx = ChunkNew /\ rx = ChunkNew /\ wire = <<>>
    /\ snd = SndIdle /\ rcv = RcvIdle

(***************************************************************************)
(* File streaming over the channel: send_file on one end, read_usize and   *)
(* receive_file on the other (as client get_file and add_file call them).  *)
(***************************************************************************)
\* The source files: missing, or k bytes, all different.
FileSizes == {0, 1, N - 1, N, N + 1, 2 * N}
FileOfSize(k) == [exists |-> TRUE, bytes |-> [i \in 1..k |-> 100 + i]]
Files == {NoFile} \cup {FileOfSize(k) : k \in FileSizes}

DropFirst(seq, k) == SubSeq(seq, k + 1, Len(seq))

InitServerQuiet == InitServer /\ DOMAIN disk = {}

InitStream ==
    /\ InitServerQuiet
    /\ tx = ChunkNew /\ rx = ChunkNew /\ wire = <<>>
    /\ \E f \in Files : snd = [SndIdle EXCEPT !.pc = "send_file", !.file = f]
    /\ rcv = [RcvIdle EXCEPT !.pc = "read_usize"]

\* send_file, lines 153-164: the size (0 for a missing path), then reset.
send_file_size ==
    /\ snd.pc = "send_file"
    /\ LET file_size == IF snd.file.exists THEN Len(snd.file.bytes) ELSE 0
           w == write_usize(tx, file_size)
       IN /\ tx' = IF snd.file.exists THEN reset(w.chunk) ELSE w.chunk
          /\ wire' = wire \o w.sent
          /\ snd' = [snd EXCEPT !.file_size = file_size,
                                !.pc = IF file_size > 0 THEN "loop" ELSE "done"]
    /\ UNCHANGED <<rx, rcv, serverVars>>

\* send_file, lines 167-171: one pass of the loop; file.read delivers
\* bytes_read bytes of the file into the buffer and send writes them.  A read
\* of a regular file delivers what was asked for, up to the end of the file.
send_file_chunk(bytes_read) ==
    /\ snd.pc = "loop"
    /\ tx.bytes_sent < snd.file_size
    /\ LET bytes_to_read == Min(N, snd.file_size - tx.bytes_sent)
           filled == [tx EXCEPT !.buffer = CopyInto(@,
                         SubSeq(snd.file.bytes, snd.pos + 1, snd.pos + bytes_read))]
           s == send(filled, bytes_read)
       IN /\ bytes_read = Min(bytes_to_read, Len(snd.file.bytes) - snd.pos)
          /\ tx' = s.chunk
          /\ wire' = wire \o s.sent
          /\ snd' = [snd EXCEPT !.pos = @ + bytes_read,
                                !.pc = IF s.chunk.bytes_sent < snd.file_size
                                       THEN "loop" ELSE "done"]
    /\ UNCHANGED <<rx, rcv, serverVars>>

\* read_usize, then receive_file, lines 180-187: a size of 0 is None;
\* otherwise an empty Vec, a count of 0 and a reset chunk.
receive_file_size ==
    /\ rcv.pc = "read_usize"
    /\ Len(wire) >= UsizeBytes
    /\ LET r == read_usize(rx, wire) IN
          /\ wire' = DropFirst(wire, UsizeBytes)
          /\ IF r.value = 0
             THEN /\ rx' = r.chunk
                  /\ rcv' = [rcv EXCEPT !.pc = "done", !.result = "None"]
             ELSE /\ rx' = reset(r.chunk)
                  /\ rcv' = [rcv EXCEPT !.pc = "loop", !.file_size = r.value,
                                        !.bytes_received = 0, !.buffer = <<>>]
    /\ UNCHANGED <<tx, snd, serverVars>>

\* receive_file, line 193: what one pass of the loop appends to the Vec.
ExtendWith(chunk, bytes_to_read, bytes_read) == slice(chunk, bytes_to_read)

\* receive_file's loop if it asked for a whole buffer on every pass.
receive_file_chunk_greedy(bytes_read) ==
    /\ rcv.pc = "loop"
    /\ rcv.bytes_received < rcv.file_size
    /\ LET bytes_to_read == N
           r == read(rx, bytes_to_read, wire, bytes_read)
           received == rcv.bytes_received + bytes_read
       IN /\ bytes_read \in 1..Min(bytes_to_read, Len(wire))
          /\ rx' = r.chunk
          /\ wire' = DropFirst(wire, bytes_read)
          /\ rcv' = [rcv EXCEPT
                        !.buffer = @ \o ExtendWith(r.chunk, bytes_to_read, bytes_read),
                        !.bytes_received = received,
                        !.pc = IF received < rcv.file_size THEN "loop" ELSE "done",
                        !.result = IF received < rcv.file_size THEN "none" ELSE "Some"]
    /\ UNCHANGED <<tx, snd, serverVars>>

\* receive_file, lines 189-197: one pass of the loop; the stream delivers
\* bytes_read of the bytes_to_read bytes asked for.
receive_file_chunk(bytes_read) ==
    /\ rcv.pc = "loop"
    /\ rcv.bytes_received < rcv.file_size
    /\ LET bytes_to_read == Min(N, rcv.file_size - rcv.bytes_received)
           r == read(rx, bytes_to_read, wire, bytes_read)
           received == rcv.bytes_received + bytes_read
       IN /\ bytes_read \in 1..Min(bytes_to_read, Len(wire))
          /\ rx' = r.chunk
          /\ wire' = DropFirst(wire, bytes_read)
          /\ rcv' = [rcv EXCEPT
                        !.buffer = @ \o ExtendWith(r.chunk, bytes_to_read, bytes_read),
                        !.bytes_received = received,
                        !.pc = IF received < rcv.file_size THEN "loop" ELSE "done",
                        !.result = IF received < rcv.file_size THEN "none" ELSE "Some"]
    /\ UNCHANGED <<tx, snd, serverVars>>

NextStream ==
    \/ send_file_size
    \/ \E bytes_read \in 1..N : send_file_chunk(bytes_read)
    \/ receive_file_size
    \/ \E bytes_read \in 1..N : receive_file_chunk(bytes_read)

SpecStream == InitStream /\ [][NextStream]_vars

\* C1: when send_file and receive_file have both returned, the bytes that
\* receive_file returned are the bytes of the source file, in order and as
\* many as declared (for a declared size of 0, "no file" stands for no bytes).
C1_FileRoundTrip ==
    (snd.pc = "done" /\ rcv.pc = "done" /\ snd.file.exists) =>
        /\ rcv.result = IF snd.file_size = 0 THEN "None" ELSE "Some"
        /\ rcv.buffer = snd.file.bytes

(***************************************************************************)
(* A download while the file is overwritten: send_file streams a file of   *)
(* server_files and the handler of another connection, in add_file, writes *)
(* a new file under the same name.                                         *)
(***************************************************************************)
\* The sizes of the contents that the other upload stores.
OverwriteSizes == {1, N}
NewFileOfSize(k) == [exists |-> TRUE, bytes |-> [i \in 1..k |-> 200 + i]]

\* add_file, line 32, on another connection: fs::write replaces the contents
\* of the file that send_file has open; the position of the open file stays.
overwrite_file(k) ==
    /\ snd.pc = "loop"
    /\ snd.file \in Files
    /\ snd' = [snd EXCEPT !.file = NewFileOfSize(k)]
    /\ UNCHANGED <<tx, rx, wire, rcv, serverVars>>

\* send_file, lines 167-171, when the position is at or past the end of the
\* file: file.read returns Ok(0), send(0) writes nothing and adds 0 to
\* bytes_sent, so the loop takes another pass from the same state.
send_file_eof ==
    /\ snd.pc = "loop"
    /\ tx.bytes_sent < snd.file_size
    /\ snd.pos >= Len(snd.file.bytes)
    /\ LET s == send(tx, 0) IN
          /\ tx' = s.chunk
          /\ wire' = wire \o s.sent
    /\ UNCHANGED <<snd, rx, rcv, serverVars>>

NextOverwrite ==
    \/ send_file_size
    \/ \E bytes_read \in 1..N : send_file_chunk(bytes_read)
    \/ send_file_eof
    \/ \E k \in OverwriteSizes : overwrite_file(k)
    \/ receive_file_size
    \/ \E bytes_read \in 1..N : receive_file_chunk(bytes_read)

\* The thread that runs send_file goes on running, and so does its peer.
SenderStep == send_file_size \/ send_file_eof \/ \E bytes_read \in 1..N : send_file_chunk(bytes_read)
ReceiverStep == receive_file_size \/ \E bytes_read \in 1..N : receive_file_chunk(bytes_read)
SpecOverwrite ==
    InitStream /\ [][NextOverwrite]_vars /\ WF_vars(SenderStep) /\ WF_vars(ReceiverStep)

\* C14: send_file on an existing file returns, having written the size and
\* then as many payload bytes as the size says, also when the file is
\* overwritten while it is streamed.
C14_SendFileTerminates ==
    (snd.pc = "send_file" /\ snd.file.exists) ~>
        (snd.pc = "done" /\ tx.bytes_sent = snd.file_size)

(***************************************************************************)
(* An upload followed by the next request: the client's send_file, then    *)
(* the op code of its next request; on the server read_usize and           *)
(* receive_file (add_file), then the read of the op code (handle_client).  *)
(***************************************************************************)
\* The op code that follows: KeepAlive.
NextOp == <<3>>

\* client.rs, line 137: the next op code is written once send_file returned.
send_op_code ==
    /\ snd.pc = "done"
    /\ LET w == write_and_send(ChunkNew, NextOp) IN
          /\ tx' = w.chunk
          /\ wire' = wire \o w.sent
          /\ snd' = [snd EXCEPT !.pc = "sent_op"]
    /\ UNCHANGED <<rx, rcv, serverVars>>

\* handle_client, lines 75-76: read_stream(1) and the op byte, read once
\* add_file has returned.
read_op_code ==
    /\ rcv.pc = "done"
    /\ Len(wire) >= 1
    /\ LET r == read_stream(rx, 1, wire) IN
          /\ rx' = r.chunk
          /\ rcv' = [rcv EXCEPT !.pc = "dispatch", !.str = to_byte_array(r.chunk, 1).bytes]
    /\ wire' = DropFirst(wire, 1)
    /\ UNCHANGED <<tx, snd, serverVars>>

NextUpload ==
    \/ send_file_size
    \/ \E bytes_read \in 1..N : send_file_chunk(bytes_read)
    \/ send_op_code
    \/ receive_file_size
    \/ \E bytes_read \in 1..N : receive_file_chunk(bytes_read)
    \/ read_op_code

SpecUpload == InitStream /\ [][NextUpload]_vars

\* The bytes the sender has written, and those the receiver has taken.
SentTotal ==
    (IF snd.pc = "send_file" THEN 0 ELSE UsizeBytes) + snd.pos
        + (IF snd.pc = "sent_op" THEN Len(NextOp) ELSE 0)
Consumed == SentTotal - Len(wire)

\* C20: for a declared size above 0, receive_file never takes more than the
\* declared number of bytes from the stream, has taken exactly that many
\* when it returns, and the byte the dispatcher reads next is the op code
\* the client sent next.
C20_FramingAligned ==
    /\ rcv.pc = "loop" => Consumed <= UsizeBytes + rcv.file_size
    /\ (rcv.pc = "done" /\ rcv.result = "Some") => Consumed = UsizeBytes + rcv.file_size
    /\ (rcv.pc = "dispatch" /\ rcv.result = "Some") => rcv.str = NextOp

\* After an upload of more than N bytes that short reads delivered (the
\* returned Vec is longer than the file), the dispatcher has read the op code.
C20_Witness ==
    /\ rcv.pc = "dispatch" /\ rcv.result = "Some"
    /\ rcv.file_size > N /\ Len(rcv.buffer) > rcv.file_size

(***************************************************************************)
(* The wire codec over the channel: write_string on one end, read_string   *)
(* on the other.  A string is a sequence of code points.                   *)
(***************************************************************************)
\* One character of one byte ("a") and one of two bytes (U+00E9).
Chars == {97, 233}
ReplacementChar == 65533

\* str::as_bytes: the UTF-8 encoding.
Utf8(ch) == IF ch < 128 THEN <<ch>> ELSE <<192 + (ch \div 64), 128 + (ch % 64)>>
RECURSIVE as_bytes(_)
as_bytes(str) == IF str = <<>> THEN <<>> ELSE Utf8(Head(str)) \o as_bytes(Tail(str))

\* String::from_utf8_lossy: a malformed byte becomes U+FFFD.
RECURSIVE from_utf8_lossy(_)
from_utf8_lossy(bytes) ==
    IF bytes = <<>> THEN <<>>
    ELSE IF bytes[1] < 128 THEN <<bytes[1]>> \o from_utf8_lossy(Tail(bytes))
    ELSE IF bytes[1] \in 194..223 /\ Len(bytes) >= 2 /\ bytes[2] \in 128..191
         THEN <<(bytes[1] - 192) * 64 + (bytes[2] - 128)>> \o from_utf8_lossy(Tail(Tail(bytes)))
    ELSE <<ReplacementChar>> \o from_utf8_lossy(Tail(bytes))

\* The strings under test: up to N + 1 bytes of UTF-8.
Strings == {str \in UNION {[1..k -> Chars] : k \in 0..(N + 1)} : Len(as_bytes(str)) <= N + 1}

InitCodec ==
    /\ InitServerQuiet
    /\ tx = ChunkNew /\ rx = ChunkNew /\ wire = <<>>
    /\ \E str \in Strings : snd = [SndIdle EXCEPT !.pc = "write_string", !.str = str]
    /\ rcv = [RcvIdle EXCEPT !.pc = "read_string"]

\* write_string, line 126: the length prefix.
write_string_len ==
    /\ snd.pc = "write_string"
    /\ LET w == write_and_send(tx, to_le_bytes(Len(as_bytes(snd.str)))) IN
          /\ tx' = w.chunk
          /\ wire' = wire \o w.sent
          /\ snd' = [snd EXCEPT !.pc = "write_string_bytes"]
    /\ UNCHANGED <<rx, rcv, serverVars>>

\* write_string, line 127: the bytes of the string.
write_string_bytes ==
    /\ snd.pc = "write_string_bytes"
    /\ LET w == write_and_send(tx, as_bytes(snd.str)) IN
          /\ tx' = w.chunk
          /\ wire' = wire \o w.sent
          /\ snd' = [snd EXCEPT !.pc = IF w.ok THEN "done" ELSE "panicked"]
    /\ UNCHANGED <<rx, rcv, serverVars>>

\* read_string, lines 131-135: the length prefix; 0 is the empty string.
read_string_len ==
    /\ rcv.pc = "read_string"
    /\ Len(wire) >= UsizeBytes
    /\ LET r == read_usize(rx, wire) IN
          /\ rx' = r.chunk
          /\ wire' = DropFirst(wire, UsizeBytes)
          /\ rcv' = IF r.value = 0
                    THEN [rcv EXCEPT !.pc = "done", !.result = "Ok", !.str = <<>>]
                    ELSE [rcv EXCEPT !.pc = "read_string_bytes", !.file_size = r.value]
    /\ UNCHANGED <<tx, snd, serverVars>>

\* read_string, lines 137-138: read_stream of the announced count (the slice
\* of the buffer is taken before the stream is read), then from_utf8_lossy.
read_string_bytes ==
    /\ rcv.pc = "read_string_bytes"
    /\ LET file_name_count == rcv.file_size IN
       IF ~SliceOk(file_name_count)
       THEN /\ rcv' = [rcv EXCEPT !.pc = "panicked"]
            /\ UNCHANGED <<rx, wire>>
       ELSE /\ Len(wire) >= file_name_count
            /\ LET r == read_stream(rx, file_name_count, wire) IN
                  /\ rx' = r.chunk
                  /\ rcv' = [rcv EXCEPT !.pc = "done", !.result = "Ok",
                                !.str = from_utf8_lossy(slice(r.chunk, file_name_count))]
            /\ wire' = DropFirst(wire, file_name_count)
    /\ UNCHANGED <<tx, snd, serverVars>>

NextCodec ==
    \/ write_string_len
    \/ write_string_bytes
    \/ read_string_len
    \/ read_string_bytes

SpecCodec == InitCodec /\ [][NextCodec]_vars

\* C7: neither write_string nor read_string panics, and when both have
\* returned, read_string returned the string that was written.
C7_StringRoundTrip ==
    /\ snd.pc # "panicked" /\ rcv.pc # "panicked"
    /\ (snd.pc = "done" /\ rcv.pc = "done") => (rcv.result = "Ok" /\ rcv.str = snd.str)

(***************************************************************************)
(* One Chunk under any sequence of its operations.  snd records the last   *)
(* operation: its name, its arguments and the counters before it; wire is  *)
(* what that operation flushed to the stream.                              *)
(***************************************************************************)
\* The lengths and counts the operations are called with.
Lens == {0, 1, N - 1, N, N + 1}
\* bytes_sent is not followed beyond this many bytes.
MaxSent == 20
\* The items written, and the bytes that the stream has ready to be read.
ItemsOfLen(k) == [i \in 1..k |-> 200 + i]
Incoming == [i \in 1..N |-> 100 + i]

ChunkCall(op, items, count) ==
    [pc |-> "chunk", op |-> op, items |-> items, count |-> count,
     before |-> [bytes_sent |-> tx.bytes_sent, last_insert |-> tx.last_insert]]

InitChunk ==
    /\ InitServerQuiet
    /\ tx = ChunkNew /\ rx = ChunkNew /\ wire = <<>>
    /\ snd = ChunkCall("new", <<>>, 0)
    /\ rcv = RcvIdle

\* The call returned r.chunk, or panicked and the Chunk is gone with its thread.
ChunkReturns(call, r, sent) ==
    /\ snd' = [call EXCEPT !.pc = IF r.ok THEN "chunk" ELSE "panicked"]
    /\ tx' = r.chunk
    /\ wire' = sent
    /\ UNCHANGED <<rx, rcv, serverVars>>

chunk_read(count, bytes_read) ==
    /\ snd.pc = "chunk"
    /\ bytes_read <= Min(count, N)
    /\ ChunkReturns(ChunkCall("read", <<>>, count), read(tx, count, Incoming, bytes_read), <<>>)

chunk_read_stream(count) ==
    /\ snd.pc = "chunk"
    /\ ChunkReturns(ChunkCall("read_stream", <<>>, count),
                    read_stream(tx, count, Incoming), <<>>)

chunk_write_to_buf(items) ==
    /\ snd.pc = "chunk"
    /\ ChunkReturns(ChunkCall("write_to_buf", items, 0), write_to_buf(tx, items), <<>>)

chunk_write_and_send(items) ==
    /\ snd.pc = "chunk"
    /\ tx.bytes_sent + Len(items) <= MaxSent
    /\ LET r == write_and_send(tx, items) IN
          ChunkReturns(ChunkCall("write_and_send", items, 0), r, r.sent)

chunk_send(count) ==
    /\ snd.pc = "chunk"
    /\ tx.bytes_sent + count <= MaxSent
    /\ LET r == send(tx, count) IN
          ChunkReturns(ChunkCall("send", <<>>, count), r, r.sent)

chunk_send_last_write ==
    /\ snd.pc = "chunk"
    /\ tx.bytes_sent + tx.last_insert <= MaxSent
    /\ LET r == send_last_write(tx) IN
          ChunkReturns(ChunkCall("send_last_write", <<>>, 0), r, r.sent)

chunk_reset ==
    /\ snd.pc = "chunk"
    /\ ChunkReturns(ChunkCall("reset", <<>>, 0), [ok |-> TRUE, chunk |-> reset(tx)], <<>>)

NextChunk ==
    \/ \E count \in Lens, bytes_read \in Lens : chunk_read(count, bytes_read)
    \/ \E count \in Lens : chunk_read_stream(count)
    \/ \E k \in Lens : chunk_write_to_buf(ItemsOfLen(k))
    \/ \E k \in Lens : chunk_write_and_send(ItemsOfLen(k))
    \/ \E count \in Lens : chunk_send(count)
    \/ chunk_send_last_write
    \/ chunk_reset

SpecChunk == InitChunk /\ [][NextChunk]_vars

\* C16: write_and_send never panics; it leaves the first min(len, N) bytes of
\* its input at the head of the buffer, sets last_insert to that number and
\* flushes exactly those bytes.
C16_WriteAndSendTruncates ==
    snd.op = "write_and_send" =>
        LET n == Min(Len(snd.items), N) IN
        /\ snd.pc # "panicked"
        /\ tx.last_insert = n
        /\ SubSeq(tx.buffer, 1, n) = SubSeq(snd.items, 1, n)
        /\ wire = SubSeq(snd.items, 1, n)

\* C17: after every operation last_insert is at most N; bytes_sent is below
\* its value before the operation only after reset, and reset leaves both
\* counters at 0.
C17_ChunkInvariant ==
    /\ tx.last_insert <= N
    /\ tx.bytes_sent < snd.before.bytes_sent => snd.op = "reset"
    /\ snd.op = "reset" => (tx.bytes_sent = 0 /\ tx.last_insert = 0)

\* reset was called on a Chunk that had sent more than N bytes and whose
\* last insert filled the buffer.
C17_Witness ==
    /\ snd.op = "reset" /\ snd.pc = "chunk"
    /\ snd.before.bytes_sent > N /\ snd.before.last_insert = N

(***************************************************************************)
(* The server's specification.                                             *)
(***************************************************************************)
NextServer ==
    \/ \E c \in Conns : execute(c)
    \/ \E w \in Workers : worker_recv(w)
    \/ \E w \in Workers : worker_disconnected(w)
    \/ drop_pool
    \/ drop_join
    \/ \E w \in Workers, c \in Conns : read_op_closed(w, c)
    \/ \E w \in Workers, c \in Conns : keep_alive(w, c)
    \/ \E w \in Workers, c \in Conns : unknown_op(w, c)
    \/ \E w \in Workers, c \in Conns, p \in Paths, file_size \in 0..MaxSize :
          \E reads \in Splits(file_size) : add_file_recv(w, c, p, file_size, reads)
    \/ \E w \in Workers, c \in Conns, op \in {0, 1}, where \in Cuts :
          request_cut(w, c, op, where)
    \/ \E w \in Workers, c \in Conns : receive_file_eof(w, c)
    \/ \E w \in Workers, c \in Conns : add_file_create(w, c)
    \/ \E w \in Workers, c \in Conns : add_file_write(w, c)
    \/ \E w \in Workers, c \in Conns : add_file_write_err(w, c)
    \/ \E w \in Workers, c \in Conns : add_file_lock(w, c)
    \/ \E w \in Workers, c \in Conns : add_file_insert(w, c)
    \/ \E w \in Workers, c \in Conns, p \in Paths : get_file(w, c, p)
    \/ \E w \in Workers, c \in Conns : fetch_files_op(w, c)
    \/ \E w \in Workers, c \in Conns : fetch_files_lock(w, c)
    \/ \E w \in Workers, c \in Conns, file \in ServerNames : fetch_files_entry(w, c, file)
    \/ \E c \in Conns : client_get_file(c)
    \/ \E c \in Conns : client_fetch_files(c)

Init == InitServer /\ InitChanIdle
Next == NextServer
Spec == Init /\ [][Next]_vars

\* The steps a worker thread takes on its own, without input from a client:
\* a running thread goes on taking them.
WorkerStep(w) ==
    \/ worker_recv(w)
    \/ worker_disconnected(w)
    \/ \E c \in Conns :
          \/ receive_file_eof(w, c)
          \/ add_file_create(w, c)
          \/ add_file_write(w, c)
          \/ add_file_lock(w, c)
          \/ add_file_insert(w, c)
          \/ fetch_files_lock(w, c)
          \/ \E file \in ServerNames : fetch_files_entry(w, c, file)
Fairness == \A w \in Workers : WF_vars(WorkerStep(w))
SpecLive == Spec /\ Fairness

(***************************************************************************)
(* The pool with one connection more than it has workers: the clients send *)
(* KeepAlive, ListFiles or an unknown op code, or close.                   *)
(***************************************************************************)
PoolConns == 1..(PoolSize + 1)

InitPool ==
    /\ mainSt = "accepting"
    /\ joinIdx = 1
    /\ queue = <<>>
    /\ wst = [w \in Workers |-> "idle"]
    /\ wjob = [w \in Workers |-> {}]
    /\ wdeath = [w \in Workers |-> "none"]
    /\ cst = [c \in PoolConns |-> "new"]
    /\ nreq = 0
    /\ cur = [c \in PoolConns |-> NoLocals]
    /\ disk \in InitDisks
    /\ index = load_all_files(disk)
    /\ lock = {}
    /\ resp = [c \in PoolConns |-> <<>>]
    /\ awaiting = [c \in PoolConns |-> "none"]
    /\ dl = [c \in PoolConns |-> "none"]
    /\ uploads = {}
    /\ seen = [c \in PoolConns |-> {}]
    /\ lastAccess = NoAccess
    /\ execCount = [c \in PoolConns |-> 0]
    /\ ranBy = [c \in PoolConns |-> {}]
    /\ lastList = {}
    /\ InitChanIdle

NextPool ==
    \/ \E c \in PoolConns : execute(c)
    \/ \E w \in Workers : worker_recv(w)
    \/ \E w \in Workers : worker_disconnected(w)
    \/ drop_pool
    \/ drop_join
    \/ \E w \in Workers, c \in PoolConns : read_op_closed(w, c)
    \/ \E w \in Workers, c \in PoolConns : keep_alive(w, c)
    \/ \E w \in Workers, c \in PoolConns : unknown_op(w, c)
    \/ \E w \in Workers, c \in PoolConns : fetch_files_op(w, c)
    \/ \E w \in Workers, c \in PoolConns : fetch_files_lock(w, c)
    \/ \E w \in Workers, c \in PoolConns, file \in ServerNames : fetch_files_entry(w, c, file)
    \/ \E c \in PoolConns : client_fetch_files(c)

SpecPool == InitPool /\ [][NextPool]_vars

\* The connections whose handler (handle_client) has started and not ended.
Running == {c \in DOMAIN cst : cst[c] \in {"AwaitOpCode", "UpWrite", "UpWriteAll", "UpLock",
                                            "UpInsert", "LsLock", "LsEntries", "spin"}}

\* C18: at most PoolSize handlers are running; a connection in the queue has
\* had no step of its handler run and no response; and it leaves the queue
\* only in a step before which fewer than PoolSize handlers were running.
C18_PoolBoundsHandlers ==
    [][/\ Cardinality(Running') <= PoolSize
       /\ \A c \in DOMAIN cst : cst'[c] = "queued" => (resp'[c] = <<>> /\ ranBy'[c] = {})
       /\ \A c \in DOMAIN cst : (cst[c] = "queued" /\ cst'[c] # "queued") =>
             Cardinality(Running) < PoolSize]_vars

\* PoolSize connections are being handled, KeepAlives have been sent on
\* them, and one more accepted connection waits in the queue.
C18_Witness ==
    /\ Cardinality(Running) = PoolSize
    /\ \E c \in DOMAIN cst : cst[c] = "queued"
    /\ nreq >= PoolSize /\ \A c \in Running : ranBy[c] # {}

(***************************************************************************)
(* Properties of the server.                                               *)
(***************************************************************************)
LiveWorkers == {w \in Workers : wst[w] \in {"idle", "busy"}}
Count(x, seq) == Cardinality({i \in 1..Len(seq) : seq[i] = x})
\* The response to a ListFiles request has been written completely.
ListDone(c) == awaiting[c] = "list" /\ resp[c] # <<>> /\ Len(resp[c]) = 1 + resp[c][1]

\* C2: handler failure isolation.  While the pool accepts connections, a
\* failing handler (unknown op byte, I/O error) ends only its connection:
\* all PoolSize workers stay alive.
C2_WorkersSurviveFailures ==
    mainSt = "accepting" => Cardinality(LiveWorkers) = PoolSize

\* C3 as stated: once an upload of f has completed with Ok, the list that a
\* later ListFiles returns holds the base name of f exactly once.
C3_EveryUploadListedOnce ==
    \A c \in Conns : ListDone(c) =>
        \A u \in seen[c] : Count(u[2], client_fetch_files_result(resp[c])) = 1

\* C3 as amended: once an upload of f with a declared size above 0 has
\* completed with Ok, the list that a later ListFiles returns holds the base
\* name of f exactly once.
C3_StoredUploadListedOnce ==
    \A c \in Conns : ListDone(c) =>
        \A u \in seen[c] : u[3] => Count(u[2], client_fetch_files_result(resp[c])) = 1

\* A list was returned after both connections had uploaded the same file.
C3_Witness ==
    \E c \in Conns : ListDone(c) /\ \E n \in ServerNames :
        {<<1, n, TRUE>>, <<2, n, TRUE>>} \subseteq seen[c]

\* C4 as stated: the base name of every completed upload is in the index,
\* whatever the interleaving of the handlers.
C4_NoLostUpdate ==
    \A u \in uploads : u[2] \in index

\* C4 as amended: the base name of every completed upload with a declared
\* size above 0 is in the index, whatever the interleaving of the handlers.
C4_NoLostStoredUpdate ==
    \A u \in uploads : u[3] => u[2] \in index

\* Two workers have each completed the upload of a different file for a
\* different connection.
C4_Witness ==
    /\ {<<1, "a", TRUE>>, <<2, "b", TRUE>>} \subseteq uploads
    /\ ranBy[1] # ranBy[2]

\* C5: the file the server reads or writes for a request is the entry of
\* server_files named by the base name of the fileName that was sent.
C5_OnlyBaseNameInServerDir ==
    lastAccess.op # "none" =>
        Resolve(<<>>, lastAccess.path) = <<SERVER_FILES, FileName(lastAccess.asked)>>

\* C6: a download of a path that does not exist is answered with the usize 0
\* and nothing else, the client's get_file returns "absent" (not a file, not
\* an error) and the handler is back at AwaitOpCode.
C6_MissingDownloadIsAbsent ==
    \A c \in Conns : (awaiting[c] = "file" /\ dl[c] = "missing") =>
        /\ resp[c] = <<0>>
        /\ \A reads \in Splits(resp[c][1]) :
               client_get_file_result(resp[c], reads).kind = "absent"
        /\ cst[c] = "AwaitOpCode"
        /\ \E w \in Workers : wst[w] = "busy" /\ wjob[w] = {c}

\* A download of a missing path has been answered.
C6_Witness ==
    \E c \in Conns : awaiting[c] = "file" /\ dl[c] = "missing" /\ resp[c] # <<>>

\* C8: a failed stream read is returned as an error; it never panics the
\* worker that runs the handler.
C8_ReadFailureNeverPanics ==
    \A w \in Workers : wdeath[w] # "Could not read string size bytes"

\* C9: every job is started at most once, steps of one connection's handler
\* are taken by one worker only, and no two workers hold the same job.
C9_JobRunOnceByOneWorker ==
    /\ \A c \in Conns : execCount[c] <= 1 /\ Cardinality(ranBy[c]) <= 1
    /\ \A c \in Conns : ranBy[c] # {} => execCount[c] = 1
    /\ \A w1, w2 \in Workers : w1 # w2 => wjob[w1] \cap wjob[w2] = {}

\* Two jobs were queued together and have been run by different workers.
C9_Witness ==
    /\ \A c \in Conns : ranBy[c] # {} /\ cst[c] \in {"err", "aborted"}
    /\ ranBy[1] # ranBy[2]

\* The set of names in a list that client fetch_files returned.
Names(list) == {list[i] : i \in 1..Len(list)}
\* The handler of c returns from fetch_files in this step.
ListCompletes(c) == cst[c] \in {"LsLock", "LsEntries"} /\ cst'[c] = "AwaitOpCode"

\* C11: the index changes only in the step that completes an upload (so
\* Download, ListFiles and KeepAlive leave it unchanged), and a list returned
\* while no upload has completed since the list before it has the same set
\* of names as that list.
C11_ListIdempotent ==
    [][/\ index' # index =>
             \E c \in Conns : cst[c] = "UpInsert" /\ cst'[c] = "AwaitOpCode"
       /\ \A c \in Conns : (ListCompletes(c) /\ lastList # {}) =>
             lastList = {Names(client_fetch_files_result(resp'[c]))}]_vars

\* Both connections hold a complete list of a non-empty index, with requests
\* of other kinds made as well, and no upload has ever completed.
C11_Witness ==
    /\ \A c \in Conns : ListDone(c) /\ resp[c][1] > 0
    /\ uploads = {} /\ lastList # {} /\ nreq = MaxReqs

\* C12: a handler that holds the mutex of the index writes nothing to its
\* stream and does no file system operation: with the lock held it only
\* inserts or copies.
C12_LockNeverHeldAcrossIO ==
    [][\A c \in lock : resp'[c] = resp[c] /\ disk' = disk]_vars

\* C13: a connection that the client closed in the middle of an upload's
\* payload (its handler is in the loop of receive_file, at the end of the
\* stream) is eventually no longer handled by any worker.
C13_ClosedConnectionEnds ==
    \A c \in Conns : (cst[c] = "spin") ~> (\A w \in Workers : wjob[w] # {c})

\* C15: when fetch_files returns, the count it wrote is the number of names
\* it wrote after it, and the list the client decodes holds, once each,
\* exactly the names that are in the index at that instant.
C15_ListWellFormed ==
    [][\A c \in Conns : ListCompletes(c) =>
          /\ Len(resp'[c]) = 1 + resp'[c][1]
          /\ Names(client_fetch_files_result(resp'[c])) = index
          /\ Len(client_fetch_files_result(resp'[c])) = Cardinality(index)]_vars

\* A list of two names is complete while the handler of the other connection
\* is in add_file, waiting for the mutex with its file already written.
C15_Witness ==
    \E c, o \in Conns :
        /\ ListDone(c) /\ resp[c][1] = 2
        /\ cst[o] = "UpLock"

\* The half of C19 that holds: every name in the index is the name of an
\* entry of server_files; and a download that asks for a name in the index,
\* whose file holds at least one byte at that moment, is not answered "absent".
C19_IndexNotAheadOfDisk ==
    [][/\ index' \subseteq DOMAIN disk'
       /\ \A c \in Conns : (awaiting[c] = "none" /\ awaiting'[c] = "file") =>
             LET p == lastAccess'.asked IN
             (Len(p) = 1 /\ p[1] \in index /\ p[1] \in DOMAIN disk /\ disk[p[1]] > 0) =>
                 \A reads \in Splits(resp'[c][1]) :
                     client_get_file_result(resp'[c], reads).kind = "file"]_vars

\* C19: every name in the index is the name of an entry of server_files, and
\* a download that asks for a name in the index, under which an upload has
\* stored a file of at least one byte, is not answered "absent".
C19_ListedDownloadNeverAbsent ==
    [][/\ index' \subseteq DOMAIN disk'
       /\ \A c \in Conns : (awaiting[c] = "none" /\ awaiting'[c] = "file") =>
             LET p == lastAccess'.asked IN
             (Len(p) = 1 /\ p[1] \in index /\ \E u \in uploads : u[2] = p[1] /\ u[3]) =>
                 \A reads \in Splits(resp'[c][1]) :
                     client_get_file_result(resp'[c], reads).kind = "file"]_vars

\* C10: dropping the pool never panics, and when drop has returned the queue
\* is empty, every queued job was run and every worker has ended.
C10_DropJoinsAllWorkers ==
    /\ mainSt # "join_panicked"
    /\ mainSt = "done" =>
          /\ queue = <<>>
          /\ \A c \in Conns : cst[c] # "queued"
          /\ \A w \in Workers : wst[w] = "exited"

====
